---- MODULE Spec2Model ----
(***************************************************************************)
(* A model of src/src/brainfuck.cpp: the recursive-descent parser with     *)
(* run-length folding and the [-]/[+] rewrite, the Printer, the            *)
(* Interpreter's tape machine and the driver loop of main.                 *)
(*                                                                         *)
(* A source file is a sequence of one-character strings.  A tape cell is   *)
(* the bit pattern of a `char`, a number in 0..255.  The tape is kept as a *)
(* function from the indexes of its non-zero cells to their values, so     *)
(* that the 30000 cells of the program fit in a state.                     *)
(***************************************************************************)
EXTENDS Integers, Sequences, FiniteSets, TLC

VARIABLES
    argv,      \* main: the contents of the files named on the command line
    argi,      \* main: the loop variable i (1-based over argv)
    pc,        \* main: "open", "parse", "accept", "run", "close", "exit", "crashed"
    file,      \* the fstream: the characters not yet extracted
    program,   \* main's Program object: its children
    loops,     \* parse: the bodies of the Loop objects of the active recursive calls
    memory,    \* Interpreter::memory, as the map of its non-zero cells
    pointer,   \* Interpreter::pointer
    frames,    \* Interpreter: the active visit(Loop)/visit(Program) calls, each with its iterator
    i,         \* Interpreter::visit(const CommandNode*): the loop variable i
    cinFail,   \* std::cin: TRUE once a read has hit end of input
    cout,      \* std::cout: the bytes written
    oob,       \* history: the tape indexes outside the array that were accessed
    last       \* history: result of the previous visit of the Program

vars == <<argv, argi, pc, file, program, loops, memory, pointer, frames, i,
          cinFail, cout, oob, last>>

parseVars == <<file, program, loops>>
interpVars == <<memory, pointer, frames, i, cinFail, cout, oob, last>>

----------------------------------------------------------------------------
(* Bounds of the model *)

\* the longest source file of the parser specification
MaxLen == 4
\* the longest first source file of the driver specification
MaxDriverLen == 3
\* the longest second source file of the driver specification
MaxSecondLen == 1
\* the most bytes std::cout takes before the model stops a run
MaxOut == 3
\* the most reads of std::cin in one visit before the model stops a run
MaxIn == 2
\* how far left of the tape the model follows the pointer
MaxLeft == 2
\* the rightmost cell to which the model follows the pointer
MaxRight == 3
\* the longest source file of the single-run specification
MaxRunLen == 4
\* the largest repeat count of the cell scenarios
MaxCount == 3
\* the most bytes std::cout takes in the run of the Hello scenario
MaxHelloOut == 13
\* the rightmost cell to which the model follows the pointer in that run
MaxHelloRight == 8
\* the most statements of an emitted program that are followed
MaxJavaSteps == 40

(* Program constants *)

\* char memory[30000]
TapeSize == 30000
\* the last index written by the reset loop, for(int i = 0; i <= 30000; i++)
ResetLast == 30000
\* a char holds 256 bit patterns
CharValues == 256

----------------------------------------------------------------------------
(* Characters and nodes *)

CommandChars == {"+", "-", "<", ">", ",", "."}

\* "a" stands for every comment character that is not whitespace, " " for
\* every whitespace character (operator>> skips it, peek() does not)
Chars == CommandChars \cup {"[", "]", "a", " "}

\* the switch of the CommandNode constructor
CommandOf(c) ==
    CASE c = "+" -> "INCREMENT"
      [] c = "-" -> "DECREMENT"
      [] c = "<" -> "SHIFT_LEFT"
      [] c = ">" -> "SHIFT_RIGHT"
      [] c = "," -> "INPUT"
      [] c = "." -> "OUTPUT"
      [] c = "z" -> "ZERO"

CommandNode(c, n) == [type |-> "CommandNode", command |-> CommandOf(c), count |-> n]

Loop(children) == [type |-> "Loop", children |-> children]

IsCommand(node) == node.type = "CommandNode"

IsLoop(node) == node.type = "Loop"

----------------------------------------------------------------------------
(* The character stream *)

RECURSIVE SkipWs(_)
\* operator>> (skipws): the stream with its leading whitespace extracted
SkipWs(s) == IF s # << >> /\ Head(s) = " " THEN SkipWs(Tail(s)) ELSE s

\* file >> c succeeds
CanExtract(s) == SkipWs(s) # << >>

\* the character file >> c stores in c
Extracted(s) == Head(SkipWs(s))

\* the stream after file >> c
AfterExtract(s) == Tail(SkipWs(s))

\* a fold that squashes one repeat only
RepeatsOnce(s, c) == IF s # << >> /\ Head(s) = c THEN 1 ELSE 0

RECURSIVE Repeats(_, _)
\* while(((char)file.peek()) == c){ file >> c; count++; }: the number of
\* iterations on stream s
Repeats(s, c) == IF s # << >> /\ Head(s) = c THEN 1 + Repeats(Tail(s), c) ELSE 0

RECURSIVE Drop(_, _)
Drop(s, n) == IF n = 0 THEN s ELSE Drop(Tail(s), n - 1)

----------------------------------------------------------------------------
(* parse *)

\* container->children.push_back(node), container being the Loop of the
\* innermost active call, or the Program
PushBack(lp, pr, node) ==
    IF lp = << >>
        THEN [loops |-> lp, program |-> Append(pr, node)]
        ELSE [loops |-> [lp EXCEPT ![Len(lp)] = Append(@, node)], program |-> pr]

\* What the caller does with the Loop its recursive call filled: "zero"
\* pushes CommandNode('z',1), "loop" pushes the Loop, "crash" is the
\* dereference of the null pointer that dynamic_cast gives for a child that
\* is a Loop (undefined behaviour: a fault, or a read of an arbitrary
\* command).
FoldOutcomes(body) ==
    IF Len(body) = 1
        THEN IF IsCommand(body[1])
                 THEN IF body[1].command \in {"INCREMENT", "DECREMENT"}
                          THEN {"zero"}
                          ELSE {"loop"}
                 ELSE {"crash", "zero", "loop"}
        ELSE {"loop"}

\* parse returns (on "]" or when the extraction fails), leaving the stream s
ParseReturn(s) ==
    /\ file' = s
    /\ IF loops = << >>
           THEN /\ pc' = "accept"
                /\ UNCHANGED <<program, loops>>
           ELSE LET body == loops[Len(loops)]
                    outer == SubSeq(loops, 1, Len(loops) - 1)
                IN \E o \in FoldOutcomes(body) :
                      CASE o = "crash" ->
                               /\ pc' = "crashed"
                               /\ loops' = outer
                               /\ UNCHANGED program
                        [] o = "zero" ->
                               /\ pc' = pc
                               /\ loops' = PushBack(outer, program, CommandNode("z", 1)).loops
                               /\ program' = PushBack(outer, program, CommandNode("z", 1)).program
                        [] o = "loop" ->
                               /\ pc' = pc
                               /\ loops' = PushBack(outer, program, Loop(body)).loops
                               /\ program' = PushBack(outer, program, Loop(body)).program

\* one iteration of while (file >> c) with c a command character
ParseCommand ==
    /\ pc = "parse"
    /\ CanExtract(file)
    /\ Extracted(file) \in CommandChars
    /\ LET c == Extracted(file)
           rest == AfterExtract(file)
           count == 1 + Repeats(rest, c)
       IN /\ file' = Drop(rest, count - 1)
          /\ loops' = PushBack(loops, program, CommandNode(c, count)).loops
          /\ program' = PushBack(loops, program, CommandNode(c, count)).program
    /\ UNCHANGED <<argv, argi, pc>>
    /\ UNCHANGED interpVars

\* one iteration with c == '[': program = new Loop(); parse(file, program)
ParseLoop ==
    /\ pc = "parse"
    /\ CanExtract(file)
    /\ Extracted(file) = "["
    /\ file' = AfterExtract(file)
    /\ loops' = Append(loops, << >>)
    /\ UNCHANGED <<argv, argi, pc, program>>
    /\ UNCHANGED interpVars

\* one iteration with c == ']': return
ParseEndLoop ==
    /\ pc = "parse"
    /\ CanExtract(file)
    /\ Extracted(file) = "]"
    /\ ParseReturn(AfterExtract(file))
    /\ UNCHANGED <<argv, argi>>
    /\ UNCHANGED interpVars

\* one iteration with any other character: no branch is taken
ParseComment ==
    /\ pc = "parse"
    /\ CanExtract(file)
    /\ Extracted(file) \notin CommandChars \cup {"[", "]"}
    /\ file' = AfterExtract(file)
    /\ UNCHANGED <<argv, argi, pc, program, loops>>
    /\ UNCHANGED interpVars

\* file >> c fails at the end of the stream: the while loop ends and parse
\* returns
ParseEof ==
    /\ pc = "parse"
    /\ ~CanExtract(file)
    /\ ParseReturn(<< >>)
    /\ UNCHANGED <<argv, argi>>
    /\ UNCHANGED interpVars

----------------------------------------------------------------------------
(* parse, as a function of the stream *)

\* what the caller appends for the Loop its recursive call filled; where the
\* code's behaviour is undefined (a single child that is a Loop), the
\* outcome that keeps the Loop
Folded(body) ==
    IF FoldOutcomes(body) = {"zero"} THEN CommandNode("z", 1) ELSE Loop(body)

RECURSIVE ParseInto(_, _)
\* parse(file, container) on the stream s and a container that holds
\* children: the container's children and the stream when the call returns
ParseInto(s, children) ==
    IF ~CanExtract(s)
        THEN [children |-> children, file |-> << >>]
        ELSE LET c == Extracted(s)
                 rest == AfterExtract(s)
                 count == 1 + Repeats(rest, c)
                 body == ParseInto(rest, << >>)
             IN CASE c \in CommandChars ->
                         ParseInto(Drop(rest, count - 1), Append(children, CommandNode(c, count)))
                  [] c = "[" ->
                         ParseInto(body.file, Append(children, Folded(body.children)))
                  [] c = "]" ->
                         [children |-> children, file |-> rest]
                  [] OTHER ->
                         ParseInto(rest, children)

\* the children of a Program that parse fills from the source s
ParseTree(s) == ParseInto(s, << >>).children

----------------------------------------------------------------------------
(* Printer *)

RECURSIVE Copies(_, _)
Copies(c, n) == IF n <= 0 THEN << >> ELSE <<c>> \o Copies(c, n - 1)

\* the switch of Printer::visit(const CommandNode*)
PrinterChar(command) ==
    CASE command = "INCREMENT" -> "+"
      [] command = "DECREMENT" -> "-"
      [] command = "SHIFT_LEFT" -> "<"
      [] command = "SHIFT_RIGHT" -> ">"
      [] command = "INPUT" -> ","
      [] command = "OUTPUT" -> "."
      [] command = "ZERO" -> "z"

RECURSIVE PrinterVisit(_)
RECURSIVE PrinterVisitAll(_)
\* Printer::visit(const CommandNode*) and Printer::visit(const Loop*): the
\* characters written to cout
PrinterVisit(node) ==
    IF IsCommand(node)
        THEN Copies(PrinterChar(node.command), node.count)
        ELSE <<"[">> \o PrinterVisitAll(node.children) \o <<"]">>

PrinterVisitAll(children) ==
    IF children = << >>
        THEN << >>
        ELSE PrinterVisit(Head(children)) \o PrinterVisitAll(Tail(children))

\* Printer::visit(const Program*)
PrinterVisitProgram(children) == PrinterVisitAll(children) \o <<"\n">>

----------------------------------------------------------------------------
(* JavaCompiler: the lines written to cout *)

\* the switch of JavaCompiler::visit(const CommandNode*)
JavaStatement(command) ==
    CASE command = "INCREMENT" -> "array[pointer]++;\n"
      [] command = "DECREMENT" -> "array[pointer]--;\n"
      [] command = "SHIFT_LEFT" -> "pointer--;\n"
      [] command = "SHIFT_RIGHT" -> "pointer++;\n"
      [] command = "INPUT" -> "array[pointer] = (byte)System.in.read();\n"
      [] command = "OUTPUT" -> "System.out.print((char)array[pointer]);\n"
      [] command = "ZERO" -> "array[pointer]=0;\n"

\* the line JavaCompiler::visit(const Loop*) writes before the children
JavaWhile == "while (array[pointer] == 1){ \n"

\* the line it writes after them
JavaEnd == "}\n"

RECURSIVE JavaCompilerVisit(_)
RECURSIVE JavaCompilerVisitAll(_)
\* JavaCompiler::visit(const CommandNode*) and JavaCompiler::visit(const Loop*)
JavaCompilerVisit(node) ==
    IF IsCommand(node)
        THEN Copies(JavaStatement(node.command), node.count)
        ELSE <<JavaWhile>> \o JavaCompilerVisitAll(node.children) \o <<JavaEnd>>

JavaCompilerVisitAll(children) ==
    IF children = << >>
        THEN << >>
        ELSE JavaCompilerVisit(Head(children)) \o JavaCompilerVisitAll(Tail(children))

\* the lines JavaCompiler::visit(const Program*) writes before the children
JavaHeader ==
    <<"import java.util.Scanner;\n",
      "import java.io.IOException;\n\n",
      "public class Default {\n",
      "public static void main(String[] args) throws IOException {\n",
      "Scanner input = new Scanner(System.in);\n",
      "byte[] array = new byte[30000];\n",
      "int pointer = 0;\n">>

\* JavaCompiler::visit(const Program*)
JavaCompilerVisitProgram(children) ==
    JavaHeader \o JavaCompilerVisitAll(children) \o <<JavaEnd, JavaEnd>>


----------------------------------------------------------------------------
(* Interpreter: the tape *)

Byte == 0..(CharValues - 1)

\* an index of char memory[30000]
InTape(p) == p \in 0..(TapeSize - 1)

\* the tape with every cell 0
EmptyTape == [k \in {} |-> 0]

\* memory[p], p inside the array
Read(mem, p) == IF p \in DOMAIN mem THEN mem[p] ELSE 0

\* memory[p] = v, p inside the array
Write(mem, p, v) ==
    IF v = 0
        THEN [k \in DOMAIN mem \ {p} |-> mem[k]]
        ELSE [k \in DOMAIN mem \cup {p} |-> IF k = p THEN v ELSE mem[k]]

\* the value of a byte outside the array: unspecified, written as a number
\* that is no bit pattern
Garbage == CharValues

\* history: what a failed cin.get leaves in the record of the bytes read
Eof == 0 - 1

\* the value read by memory[p]
Load(mem, p) == IF InTape(p) THEN Read(mem, p) ELSE Garbage

\* memory[p] = v: a store outside the array leaves the tape as it is
Store(mem, p, v) == IF InTape(p) THEN Write(mem, p, v) ELSE mem

\* the tape indexes outside the array, with p among them if p is outside
Touch(o, p) == IF InTape(p) THEN o ELSE o \cup {p}

\* an increment that does not wrap
IncrementedUnbounded(v) == v + 1

\* memory[pointer]++ on a char: the next bit pattern
Incremented(v) == (v + 1) % CharValues

\* memory[pointer]-- on a char: the previous bit pattern
Decremented(v) == (v + CharValues - 1) % CharValues

----------------------------------------------------------------------------
(* Interpreter: the visit in progress *)

Top == frames[Len(frames)]

\* the iterator of the innermost for loop points at a child
AtNode == frames # << >> /\ Top.it <= Len(Top.children)

\* (*it), the child about to accept the visitor or being visited
Node == Top.children[Top.it]

\* ++it in the innermost for loop
NextChild(fr) == [fr EXCEPT ![Len(fr)].it = @ + 1]

\* visit(const CommandNode*) is about to run the switch once more
AtCommand(command) ==
    /\ pc = "run"
    /\ AtNode
    /\ IsCommand(Node)
    /\ Node.command = command
    /\ i < Node.count

\* visit(const Loop*) is about to evaluate while(memory[pointer])
AtLoopTest ==
    /\ pc = "run"
    /\ Len(frames) > 1
    /\ Top.it > Len(Top.children)

\* the next step writes memory[pointer]
AtStore == \E command \in {"INCREMENT", "DECREMENT", "INPUT", "ZERO"} : AtCommand(command)

\* the source file of the Hello scenario
HelloSource ==
    <<"+", "+", "+", "+", "+", "+", "+", "+", "[", ">", "+", "+", "+", "+",
      "[", ">", "+", "+", ">", "+", "+", "+", ">", "+", "+", "+", ">", "+",
      "<", "<", "<", "<", "-", "]", ">", "+", ">", "+", ">", "-", ">", ">",
      "+", "[", "<", "]", "<", "-", "]", ">", ">", ".", ">", "-", "-", "-",
      ".", "+", "+", "+", "+", "+", "+", "+", ".", ".", "+", "+", "+", ".">>

\* the number of bytes after which the model stops a run
OutCap == IF argv = <<HelloSource>> THEN MaxHelloOut ELSE MaxOut

\* the cell at which the model stops following the pointer to the right
RightCap == IF argv = <<HelloSource>> THEN MaxHelloRight ELSE MaxRight

\* history: the record of the visit in progress
Note(h, field, value) == [h EXCEPT ![Len(h)][field] = value]

\* Interpreter::visit(const Program*): the reset loop and pointer = 0; the
\* for loop over the children begins.  The reset loop writes the indexes
\* 0..ResetLast; the byte at index TapeSize lies in the Interpreter object,
\* after the array (in pointer, which is assigned next, or in padding).
VisitProgram ==
    /\ pc = "accept"
    /\ memory' = [k \in {j \in DOMAIN memory : j > ResetLast} |-> memory[k]]
    /\ oob' = oob \cup (TapeSize..ResetLast)
    /\ pointer' = 0
    /\ frames' = <<[children |-> program, it |-> 1]>>
    /\ i' = 0
    /\ pc' = "run"
    /\ last' = Append(last, [program |-> program, in |-> << >>, out |-> << >>,
                              memory |-> EmptyTape, pointer |-> 0, end |-> "running"])
    /\ UNCHANGED <<argv, argi, cinFail, cout>>
    /\ UNCHANGED parseVars

\* case INCREMENT: memory[pointer]++
Increment ==
    /\ AtCommand("INCREMENT")
    /\ memory' = Store(memory, pointer, Incremented(Read(memory, pointer)))
    /\ oob' = Touch(oob, pointer)
    /\ i' = i + 1
    /\ UNCHANGED <<argv, argi, pc, pointer, frames, cinFail, cout, last>>
    /\ UNCHANGED parseVars

\* case DECREMENT: memory[pointer]--
Decrement ==
    /\ AtCommand("DECREMENT")
    /\ memory' = Store(memory, pointer, Decremented(Read(memory, pointer)))
    /\ oob' = Touch(oob, pointer)
    /\ i' = i + 1
    /\ UNCHANGED <<argv, argi, pc, pointer, frames, cinFail, cout, last>>
    /\ UNCHANGED parseVars

\* case SHIFT_LEFT: pointer--
ShiftLeft ==
    /\ AtCommand("SHIFT_LEFT")
    /\ pointer > -MaxLeft
    /\ pointer' = pointer - 1
    /\ i' = i + 1
    /\ UNCHANGED <<argv, argi, pc, memory, frames, cinFail, cout, oob, last>>
    /\ UNCHANGED parseVars

\* case SHIFT_RIGHT: pointer++
ShiftRight ==
    /\ AtCommand("SHIFT_RIGHT")
    /\ pointer < RightCap
    /\ pointer' = pointer + 1
    /\ i' = i + 1
    /\ UNCHANGED <<argv, argi, pc, memory, frames, cinFail, cout, oob, last>>
    /\ UNCHANGED parseVars

\* case INPUT: cin.get(memory[pointer]) extracts a byte, one of bytes
Input(bytes) ==
    /\ AtCommand("INPUT")
    /\ Len(last[Len(last)].in) < MaxIn
    /\ ~cinFail
    /\ \E b \in bytes :
          /\ memory' = Store(memory, pointer, b)
          /\ last' = Note(last, "in", Append(last[Len(last)].in, b))
    /\ oob' = Touch(oob, pointer)
    /\ i' = i + 1
    /\ UNCHANGED <<argv, argi, pc, pointer, frames, cinFail, cout>>
    /\ UNCHANGED parseVars

\* case INPUT: cin.get(memory[pointer]) finds no byte (end of input, or
\* failbit already set): it sets failbit and leaves the cell as it is
InputFail ==
    /\ AtCommand("INPUT")
    /\ Len(last[Len(last)].in) < MaxIn
    /\ cinFail' = TRUE
    /\ i' = i + 1
    /\ last' = Note(last, "in", Append(last[Len(last)].in, Eof))
    /\ UNCHANGED <<argv, argi, pc, memory, pointer, frames, cout, oob>>
    /\ UNCHANGED parseVars

\* case OUTPUT: cout << memory[pointer]
Output ==
    /\ AtCommand("OUTPUT")
    /\ Len(cout) < OutCap
    /\ cout' = Append(cout, Load(memory, pointer))
    /\ oob' = Touch(oob, pointer)
    /\ i' = i + 1
    /\ last' = Note(last, "out", Append(last[Len(last)].out, Load(memory, pointer)))
    /\ UNCHANGED <<argv, argi, pc, memory, pointer, frames, cinFail>>
    /\ UNCHANGED parseVars

\* a ZERO case that stores 1
ZeroStoresOne ==
    /\ AtCommand("ZERO")
    /\ memory' = Store(memory, pointer, 1)
    /\ oob' = Touch(oob, pointer)
    /\ i' = i + 1
    /\ UNCHANGED <<argv, argi, pc, pointer, frames, cinFail, cout, last>>
    /\ UNCHANGED parseVars

\* case ZERO: memory[pointer]=0
Zero ==
    /\ AtCommand("ZERO")
    /\ memory' = Store(memory, pointer, 0)
    /\ oob' = Touch(oob, pointer)
    /\ i' = i + 1
    /\ UNCHANGED <<argv, argi, pc, pointer, frames, cinFail, cout, last>>
    /\ UNCHANGED parseVars

\* visit(const CommandNode*): i < leaf->count fails, the visit returns and
\* the caller's iterator moves on
CommandReturn ==
    /\ pc = "run"
    /\ AtNode
    /\ IsCommand(Node)
    /\ i >= Node.count
    /\ i' = 0
    /\ frames' = NextChild(frames)
    /\ UNCHANGED <<argv, argi, pc, memory, pointer, cinFail, cout, oob, last>>
    /\ UNCHANGED parseVars

\* a visit(const Loop*) that runs its body before the first test
LoopFrameDoWhile(loop) == [children |-> loop.children, it |-> 1]

\* the frame of a visit(const Loop*) that has just been called: it stands
\* at the while test
LoopFrame(loop) == [children |-> loop.children, it |-> Len(loop.children) + 1]

\* (*it)->accept(this) on a Loop: visit(const Loop*) is called
EnterLoop ==
    /\ pc = "run"
    /\ AtNode
    /\ IsLoop(Node)
    /\ frames' = Append(frames, LoopFrame(Node))
    /\ UNCHANGED <<argv, argi, pc, memory, pointer, i, cinFail, cout, oob, last>>
    /\ UNCHANGED parseVars

\* a loop test that is true of the value 1 only
TestsTrueOnOne(v) == v = 1

\* a loop test that is inverted
TestsTrueInverted(v) == v = 0

\* while(memory[pointer]) may find the value v non-zero
TestsTrue(v) == v = Garbage \/ v # 0

\* while(memory[pointer]) may find the value v zero: the test is not true,
\* or the value is unspecified
TestsFalse(v) == v = Garbage \/ ~TestsTrue(v)

\* while(memory[pointer]) is true: the for loop over the children begins
LoopPass ==
    /\ AtLoopTest
    /\ TestsTrue(Load(memory, pointer))
    /\ frames' = [frames EXCEPT ![Len(frames)].it = 1]
    /\ oob' = Touch(oob, pointer)
    /\ UNCHANGED <<argv, argi, pc, memory, pointer, i, cinFail, cout, last>>
    /\ UNCHANGED parseVars

\* while(memory[pointer]) is false: visit(const Loop*) returns and the
\* caller's iterator moves on
LoopReturn ==
    /\ AtLoopTest
    /\ TestsFalse(Load(memory, pointer))
    /\ frames' = NextChild(SubSeq(frames, 1, Len(frames) - 1))
    /\ oob' = Touch(oob, pointer)
    /\ UNCHANGED <<argv, argi, pc, memory, pointer, i, cinFail, cout, last>>
    /\ UNCHANGED parseVars

\* a store to memory[pointer] outside the array is undefined behaviour: it
\* overwrites bytes next to the array (left of it, the Interpreter's own
\* vtable pointer), and the run goes on as if nothing happened (the case
\* actions above) or faults (here)
SegFault ==
    /\ AtStore
    /\ ~InTape(pointer)
    /\ pc' = "crashed"
    /\ oob' = Touch(oob, pointer)
    /\ last' = [last EXCEPT ![Len(last)] =
                   [@ EXCEPT !.memory = memory, !.pointer = pointer, !.end = "crashed"]]
    /\ UNCHANGED <<argv, argi, memory, pointer, frames, i, cinFail, cout>>
    /\ UNCHANGED parseVars

\* Interpreter::visit(const Program*) returns
ProgramReturn ==
    /\ pc = "run"
    /\ Len(frames) = 1
    /\ ~AtNode
    /\ frames' = << >>
    /\ pc' = "close"
    /\ last' = [last EXCEPT ![Len(last)] =
                   [@ EXCEPT !.memory = memory, !.pointer = pointer, !.end = "returned"]]
    /\ UNCHANGED <<argv, argi, memory, pointer, i, cinFail, cout, oob>>
    /\ UNCHANGED parseVars

----------------------------------------------------------------------------
(* main *)

\* file.open(argv[i], fstream::in)
Open ==
    /\ pc = "open"
    /\ file' = argv[argi]
    /\ pc' = "parse"
    /\ UNCHANGED <<argv, argi, program, loops>>
    /\ UNCHANGED interpVars

Sources(n) == UNION {[1..k -> Chars] : k \in 0..n}

\* memory and pointer are uninitialized until the first visit of a Program,
\* which reads neither before it has written it
InitCommon ==
    /\ argi = 1
    /\ file = << >>
    /\ loops = << >>
    /\ memory = EmptyTape
    /\ pointer = 0
    /\ frames = << >>
    /\ i = 0
    /\ cinFail = FALSE
    /\ cout = << >>
    /\ oob = {}
    /\ last = << >>

InitParse ==
    /\ argv \in {<<s>> : s \in Sources(MaxLen)}
    /\ pc = "open"
    /\ program = << >>
    /\ InitCommon

NextParse ==
    \/ Open
    \/ ParseCommand
    \/ ParseLoop
    \/ ParseEndLoop
    \/ ParseComment
    \/ ParseEof

SpecParse == InitParse /\ [][NextParse]_vars

----------------------------------------------------------------------------
(* The driver: main on one or two source files *)

\* file.close(); i++ and the test i < argc
Close ==
    /\ pc = "close"
    /\ file' = << >>
    /\ argi' = argi + 1
    /\ pc' = IF argi + 1 <= Len(argv) THEN "open" ELSE "exit"
    /\ UNCHANGED <<argv, program, loops>>
    /\ UNCHANGED interpVars

\* the bytes standard input supplies in the driver specification
StdinBytes == {0, 1}

Init ==
    /\ argv \in {<<s>> : s \in Sources(MaxDriverLen)}
            \cup {<<s, t>> : s \in Sources(MaxDriverLen), t \in Sources(MaxSecondLen)}
    /\ pc = "open"
    /\ program = << >>
    /\ InitCommon

Next ==
    \/ Open
    \/ ParseCommand
    \/ ParseLoop
    \/ ParseEndLoop
    \/ ParseComment
    \/ ParseEof
    \/ VisitProgram
    \/ Increment
    \/ Decrement
    \/ ShiftLeft
    \/ ShiftRight
    \/ Input(StdinBytes)
    \/ InputFail
    \/ Output
    \/ Zero
    \/ CommandReturn
    \/ EnterLoop
    \/ LoopPass
    \/ LoopReturn
    \/ SegFault
    \/ ProgramReturn
    \/ Close

Spec == Init /\ [][Next]_vars

----------------------------------------------------------------------------
(* One run: main on one source file without comments *)

RunSources == UNION {[1..k -> CommandChars \cup {"[", "]"}] : k \in 0..MaxRunLen}

InitRun ==
    /\ argv \in {<<s>> : s \in RunSources}
    /\ pc = "open"
    /\ program = << >>
    /\ InitCommon

NextRun ==
    \/ Open
    \/ ParseCommand
    \/ ParseLoop
    \/ ParseEndLoop
    \/ ParseEof
    \/ VisitProgram
    \/ Increment
    \/ Decrement
    \/ ShiftLeft
    \/ ShiftRight
    \/ Input(StdinBytes)
    \/ InputFail
    \/ Output
    \/ Zero
    \/ CommandReturn
    \/ EnterLoop
    \/ LoopPass
    \/ LoopReturn
    \/ SegFault
    \/ ProgramReturn
    \/ Close

SpecRun == InitRun /\ [][NextRun]_vars

----------------------------------------------------------------------------
(* Cell scenarios: one cell set by a byte of standard input, then cleared   *)
(* or incremented and decremented                                           *)

\* the source "+.>," followed by the clear-cell idiom of c
ClearSource(c) == <<"+", ".", ">", ",", "[", c, "]">>

\* what parse builds from "+.>,": cell 0 is set to 1 and written, and the
\* cell at pointer 1 is read from standard input
Prefix == <<CommandNode("+", 1), CommandNode(".", 1), CommandNode(">", 1), CommandNode(",", 1)>>

\* the tree of "+.>," followed by a real Loop whose body is the command c
RealLoop(c) == Prefix \o <<Loop(<<CommandNode(c, 1)>>)>>

\* the source "," followed by n of c and n of d
RoundTripSource(c, d, n) == <<",">> \o [k \in 1..n |-> c] \o [k \in 1..n |-> d]

CellSources ==
    {ClearSource("-"), ClearSource("+")}
        \cup {RoundTripSource("+", "-", n) : n \in 1..MaxCount}
        \cup {RoundTripSource("-", "+", n) : n \in 1..MaxCount}

InitCell ==
    /\ InitCommon
    /\ \/ /\ argv \in {<<s>> : s \in CellSources}
          /\ pc = "open"
          /\ program = << >>
       \/ /\ argv = << >>
          /\ pc = "accept"
          /\ program \in {RealLoop("-"), RealLoop("+")}

NextCell ==
    \/ Open
    \/ ParseCommand
    \/ ParseLoop
    \/ ParseEndLoop
    \/ ParseEof
    \/ VisitProgram
    \/ Increment
    \/ Decrement
    \/ ShiftRight
    \/ Input(Byte)
    \/ InputFail
    \/ Output
    \/ Zero
    \/ CommandReturn
    \/ EnterLoop
    \/ LoopPass
    \/ LoopReturn
    \/ ProgramReturn
    \/ Close

SpecCell == InitCell /\ [][NextCell]_vars

----------------------------------------------------------------------------
(* The Hello scenario: main on the one source file HelloSource.  The run   *)
(* reads no input, so it is one behaviour; main runs on until it returns,  *)
(* which is the weak fairness of its steps.                                *)

InitHello ==
    /\ argv = <<HelloSource>>
    /\ pc = "open"
    /\ program = << >>
    /\ InitCommon

NextHello ==
    \/ Open
    \/ ParseCommand
    \/ ParseLoop
    \/ ParseEndLoop
    \/ ParseEof
    \/ VisitProgram
    \/ Increment
    \/ Decrement
    \/ ShiftLeft
    \/ ShiftRight
    \/ Output
    \/ CommandReturn
    \/ EnterLoop
    \/ LoopPass
    \/ LoopReturn
    \/ ProgramReturn
    \/ Close

SpecHello == InitHello /\ [][NextHello]_vars /\ WF_vars(NextHello)

----------------------------------------------------------------------------
(* Properties of parse, checked under SpecParse *)

\* the children of the container that the innermost active call of parse
\* appends to
Target(lp, pr) == IF lp = << >> THEN pr ELSE lp[Len(lp)]

\* a recursive call of parse extracts the "]" of its Loop and returns to
\* the call that made the Loop
LoopParsed ==
    /\ pc = "parse"
    /\ CanExtract(file)
    /\ Extracted(file) = "]"
    /\ Len(loops') < Len(loops)

\* the body of the Loop whose recursive call returns
ParsedBody == loops[Len(loops)]

\* the children of that Loop's container, before the Loop is handled
OuterTarget == Target(SubSeq(loops, 1, Len(loops) - 1), program)

\* a body that is not the clear-cell shape: empty, or more than one child,
\* or a single child that is no Increment or Decrement command
NotClearShape(body) ==
    \/ Len(body) # 1
    \/ IsLoop(body[1])
    \/ body[1].command \notin {"INCREMENT", "DECREMENT"}

\* C2: a bracketed loop whose body is empty, has more than one child, or has
\* a single child that is not an Increment/Decrement command, is appended to
\* its container as one Loop node holding that body, and parse goes on.
C2_NonFoldedLoopPreserved ==
    [][(LoopParsed /\ NotClearShape(ParsedBody))
         => /\ pc' = "parse"
            /\ Target(loops', program') = Append(OuterTarget, Loop(ParsedBody))]_vars

\* the node just appended to the container of the returning call
Appended == Target(loops', program')[Len(Target(loops', program'))]

\* C3: a Zero command has count 1 and is produced only from a loop whose
\* body is a single Increment or Decrement command of count 1; a loop whose
\* single child has a count greater than 1 is not rewritten to Zero.
C3_ZeroOnlyFromCountOne ==
    [][(LoopParsed /\ pc' = "parse" /\ IsCommand(Appended) /\ Appended.command = "ZERO")
         => /\ Appended.count = 1
            /\ Len(ParsedBody) = 1
            /\ IsCommand(ParsedBody[1])
            /\ ParsedBody[1].command \in {"INCREMENT", "DECREMENT"}
            /\ ParsedBody[1].count = 1]_vars

\* the operation each command character stands for
Operation ==
    [c \in CommandChars |->
        CASE c = "+" -> "INCREMENT"
          [] c = "-" -> "DECREMENT"
          [] c = "<" -> "SHIFT_LEFT"
          [] c = ">" -> "SHIFT_RIGHT"
          [] c = "," -> "INPUT"
          [] c = "." -> "OUTPUT"]

\* the length of the maximal run of c at the head of s (s begins with c)
RunAt(s, c) ==
    CHOOSE n \in 1..Len(s) :
        /\ \A k \in 1..n : s[k] = c
        /\ n = Len(s) \/ s[n + 1] # c

RECURSIVE CountsPositive(_)
\* every Command node of the trees has a count of at least 1
CountsPositive(children) ==
    \A k \in 1..Len(children) :
        IF IsCommand(children[k])
            THEN children[k].count >= 1
            ELSE CountsPositive(children[k].children)

\* parse extracts a command character next
AtRun == pc = "parse" /\ CanExtract(file) /\ Extracted(file) \in CommandChars

\* C4: a maximal run of N consecutive command characters c becomes exactly
\* one Command node with c's operation and count N, the stream moves past
\* the run and no further, the Printer writes N copies of c for the node,
\* and every node of the tree has a count of at least 1.
C4_RunLengthFolding ==
    /\ [](CountsPositive(program) /\ \A k \in 1..Len(loops) : CountsPositive(loops[k]))
    /\ [][AtRun =>
            LET s == SkipWs(file)
                c == s[1]
                N == RunAt(s, c)
                node == [type |-> "CommandNode", command |-> Operation[c], count |-> N]
            IN /\ Target(loops', program') = Append(Target(loops, program), node)
               /\ file' = SubSeq(s, N + 1, Len(s))
               /\ PrinterVisit(Appended) = [k \in 1..N |-> c]]_vars

\* a run of three or more characters was folded into one node
C4_Witness ==
    /\ pc = "accept"
    /\ \E k \in 1..Len(program) : IsCommand(program[k]) /\ program[k].count >= 3

----------------------------------------------------------------------------
(* Properties of the cell scenarios, checked under SpecCell *)

\* the visit of the Program has returned
Returned == pc \in {"close", "exit"}

\* the tape after "+.>," has run and the cell at pointer 1 has been cleared
ClearedTape == [k \in {0} |-> 1]

\* what parse builds from "+.>,[-]" and from "+.>,[+]"
ZeroTree == Prefix \o <<[type |-> "CommandNode", command |-> "ZERO", count |-> 1]>>

\* C1: parse turns [-] and [+] into one Zero command of count 1 and no
\* Loop; whatever byte the cell holds, the Interpreter leaves the same state
\* (the cell 0, the pointer, the other cells and the output as they were)
\* after the Zero command as after a real Loop around one Decrement or one
\* Increment of count 1; and the Zero command gets there in one step.
C1_ZeroLoopEquivalence ==
    /\ []((pc = "accept" /\ argv # << >> /\ argv[1] \in {ClearSource("-"), ClearSource("+")})
            => program = ZeroTree)
    /\ []((Returned /\ program \in {ZeroTree, RealLoop("-"), RealLoop("+")})
            => /\ memory = ClearedTape
               /\ pointer = 1
               /\ cout = <<1>>)
    /\ [][AtCommand("ZERO")
            => /\ i = 0
               /\ i' = Node.count
               /\ memory' = Write(memory, pointer, 0)
               /\ <<pointer, cout, frames>>' = <<pointer, cout, frames>>]_vars

\* the run of a real Loop around one Decrement has returned, the cell
\* having been read as a byte of 2 or more
C1_Witness ==
    /\ Returned
    /\ program = RealLoop("-")
    /\ last[1].in # << >>
    /\ last[1].in[1] \in 2..(CharValues - 1)

\* the trees of the round-trip sources: Input, then count of c and count of d
RoundTripTree(c, d, n) == <<CommandNode(",", 1), CommandNode(c, n), CommandNode(d, n)>>

RoundTripTrees ==
    {RoundTripTree("+", "-", n) : n \in 1..MaxCount}
        \cup {RoundTripTree("-", "+", n) : n \in 1..MaxCount}

\* the value the cell at pointer 0 was given by the Input command
InputValue == IF last[1].in[1] = Eof THEN 0 ELSE last[1].in[1]

\* C10: every tape cell holds one of 256 values; Increment on 255 gives 0
\* and Decrement on 0 gives 255; an Increment of count N followed by a
\* Decrement of count N on the same cell, or the reverse, leaves the cell as
\* it was.
C10_Mod256Cells ==
    /\ [](\A k \in DOMAIN memory : InTape(k) /\ memory[k] \in 1..255)
    /\ [][/\ (AtCommand("INCREMENT") /\ Read(memory, pointer) = 255)
               => Read(memory', pointer) = 0
          /\ (AtCommand("DECREMENT") /\ Read(memory, pointer) = 0)
               => Read(memory', pointer) = 255]_vars
    /\ []((Returned /\ program \in RoundTripTrees)
            => memory = Write(EmptyTape, 0, InputValue))

\* a round trip that wrapped through 255 and 0 has returned
C10_Witness ==
    /\ Returned
    /\ program = RoundTripTree("+", "-", 2)
    /\ last[1].in = <<255>>
    /\ memory = Write(EmptyTape, 0, 255)

----------------------------------------------------------------------------
(* Properties of one run, checked under SpecRun *)

\* the innermost frame after the step
TopAfter == frames'[Len(frames')]

\* the frame of the caller of the innermost visit
Caller == frames[Len(frames) - 1]

\* the Interpreter is inside a pass over the children of a Loop
InPass == pc = "run" /\ Len(frames) > 1 /\ AtNode

\* what parse builds from ",[-." : a Loop whose first child clears a cell of 1
MidPassTree ==
    <<CommandNode(",", 1), Loop(<<CommandNode("-", 1), CommandNode(".", 1)>>)>>

\* C9: visiting a Loop tests the cell at the pointer before the first pass
\* and again after each full pass; while it is non-zero every child is
\* visited once, in order; a Loop entered with the cell 0 visits no child;
\* and no test is made in the middle of a pass.
C9_LoopExecution ==
    /\ [][/\ \* a visit of a Loop begins at the test, with no child visited
             (pc = "run" /\ Len(frames') > Len(frames))
                => /\ IsLoop(Node)
                   /\ frames' = Append(frames, TopAfter)
                   /\ TopAfter.children = Node.children
                   /\ TopAfter.it > Len(TopAfter.children)
          /\ \* the test on a non-zero cell starts a pass at the first child
             (AtLoopTest /\ InTape(pointer) /\ Read(memory, pointer) # 0 /\ vars' # vars)
                => /\ Len(frames') = Len(frames)
                   /\ TopAfter = [Top EXCEPT !.it = 1]
          /\ \* the test on a zero cell ends the visit: no child is visited
             (AtLoopTest /\ InTape(pointer) /\ Read(memory, pointer) = 0)
                => /\ Len(frames') = Len(frames) - 1
                   /\ TopAfter = [Caller EXCEPT !.it = @ + 1]
          /\ \* inside a pass the visit goes from each child to the next, a
             \* child is left only when it has been visited in full, and the
             \* Loop is not left
             InPass
                => /\ Len(frames') >= Len(frames)
                   /\ Len(frames') = Len(frames)
                        => \/ TopAfter = Top
                           \/ /\ TopAfter = [Top EXCEPT !.it = @ + 1]
                              /\ IsCommand(Node)
                              /\ i = Node.count
                   /\ <<memory, pointer, cout>>' # <<memory, pointer, cout>>
                        => IsCommand(Node) /\ i < Node.count]_vars
    /\ \* a cell that becomes 0 in the middle of a pass does not cut the pass short
       []((Returned /\ program = MidPassTree /\ last[1].in = <<1>>) => cout = <<0>>)

\* the pass that cleared the cell with its first child has run its second
\* child, and the visit has returned
C9_Witness ==
    /\ Returned
    /\ program = MidPassTree
    /\ last[1].in = <<1>>
    /\ cout = <<0>>

----------------------------------------------------------------------------
(* Properties of the driver, checked under Spec *)

RECURSIVE Brackets(_, _)
\* how the brackets of the source s end, read from nesting depth d: "stray"
\* at a "]" with no loop open, "unmatched" at the end of the source with a
\* loop still open, "matched" otherwise
Brackets(s, d) ==
    IF s = << >>
        THEN IF d > 0 THEN "unmatched" ELSE "matched"
        ELSE CASE Head(s) = "[" -> Brackets(Tail(s), d + 1)
               [] Head(s) = "]" -> IF d = 0 THEN "stray" ELSE Brackets(Tail(s), d - 1)
               [] OTHER -> Brackets(Tail(s), d)

\* main has parsed the current source file and goes on to the backend, or
\* the backend is walking or has walked the tree
Accepted == pc \in {"accept", "run", "close"}

\* C5: a source with a "]" that no open loop encloses ends parsing in an
\* error: no backend visits the tree, so the source has no execution side
\* effect.
C5_StrayBracketRejected ==
    Accepted => Brackets(argv[argi], 0) # "stray"

\* C6: a source whose end is reached while a loop body is being parsed is a
\* parse failure: its tree is never walked by a backend.
C6_UnmatchedBracketRejected ==
    Accepted => Brackets(argv[argi], 0) # "unmatched"

\* C7: a ShiftLeft executed with pointer 0, or a ShiftRight with pointer
\* 29999, stops the run; the pointer never leaves 0..29999 and no command
\* after the offending shift is executed.
C7_OutOfBoundsFatal ==
    [][(AtCommand("SHIFT_LEFT") /\ pointer = 0) \/ (AtCommand("SHIFT_RIGHT") /\ pointer = TapeSize - 1)
         => /\ pc' # "run"
            /\ InTape(pointer')
            /\ cout' = cout]_vars

\* the visit k of the Program is over
Ended(k) == last[k].end # "running"

\* C8: a visit of the Program first sets every tape cell and the pointer to
\* 0, whatever an earlier visit left, and then visits the children in order;
\* so two visits of the same Program that read the same input bytes end
\* alike, with the same output, tape and pointer.
C8_RestartableInterpreter ==
    /\ [][pc = "accept"
            => /\ memory' = EmptyTape
               /\ pointer' = 0
               /\ frames' = <<[children |-> program, it |-> 1]>>]_vars
    /\ []((/\ Len(last) = 2
           /\ Ended(1)
           /\ Ended(2)
           /\ last[1].program = last[2].program
           /\ last[1].in = last[2].in)
            => last[1] = last[2])

\* the visit k of the Program found standard input at its end
Failed(k) == \E j \in 1..Len(last[k].in) : last[k].in[j] = Eof

\* C11: an Input operation that finds no byte available aborts the run: the
\* step that finds the end of input leaves the run, so no later command of
\* the program is executed, and no visit that met the end of input returns
\* as a completed run.
C11_EndOfInputAborts ==
    /\ [][(AtCommand("INPUT") /\ cinFail' /\ last' # last) => pc' # "run"]_vars
    /\ [](\A k \in 1..Len(last) : Failed(k) => last[k].end # "returned")

----------------------------------------------------------------------------
(* Properties of the Hello scenario, checked under SpecHello *)

\* the bytes of "Hello World!"
HelloWorldText == <<72, 101, 108, 108, 111, 32, 87, 111, 114, 108, 100, 33>>

\* the bytes of "Hello"
HelloText == SubSeq(HelloWorldText, 1, 5)

\* C12, as stated: the run of the tree parsed from HelloSource ends with
\* exactly the bytes of "Hello World!" written.
C12_HelloWorld == Returned => cout = HelloWorldText

\* C12, amended: the run of the tree parsed from HelloSource terminates and
\* the bytes written by Output are exactly those of "Hello", with no
\* newline after them; at every moment the bytes written so far are a
\* prefix of "Hello".
C12_Hello ==
    /\ <>(pc = "exit")
    /\ [](Returned => cout = HelloText)
    /\ [](Len(cout) <= Len(HelloText) /\ cout = SubSeq(HelloText, 1, Len(cout)))

\* the run has returned with the five bytes written and main has left its loop
C12_Witness ==
    /\ pc = "exit"
    /\ last[1].end = "returned"
    /\ last[1].out = HelloText

----------------------------------------------------------------------------
(* The program JavaCompiler emits, run as Java runs it, against the         *)
(* Interpreter's run of the same tree; checked under SpecRun                *)

RECURSIVE JavaClose(_, _, _)
\* the line of the "}" that closes the while whose body begins at line k
JavaClose(code, k, d) ==
    IF code[k] = JavaWhile
        THEN JavaClose(code, k + 1, d + 1)
        ELSE IF code[k] = JavaEnd
                 THEN IF d = 0 THEN k ELSE JavaClose(code, k + 1, d - 1)
                 ELSE JavaClose(code, k + 1, d)

RECURSIVE JavaOpen(_, _, _)
\* the line of the while whose body ends at line k
JavaOpen(code, k, d) ==
    IF code[k] = JavaEnd
        THEN JavaOpen(code, k - 1, d + 1)
        ELSE IF code[k] = JavaWhile
                 THEN IF d = 0 THEN k ELSE JavaOpen(code, k - 1, d - 1)
                 ELSE JavaOpen(code, k - 1, d)

RECURSIVE JavaExec(_, _, _)
\* the state in which the emitted main ends, from state st at line st.ip:
\* array holds bytes (kept as bit patterns), an index outside the array
\* throws, System.in.read() gives -1 at the end of input, and the while
\* statement tests its condition before each pass
JavaExec(code, st, fuel) ==
    IF st.ip >= Len(code) - 1
        THEN [st EXCEPT !.end = "returned"]
        ELSE IF fuel = 0
                 THEN st
                 ELSE LET line == code[st.ip]
                          cell == Read(st.array, st.pointer)
                          Thrown == [st EXCEPT !.end = "ArrayIndexOutOfBoundsException"]
                          Set(v) == [st EXCEPT !.array = Write(st.array, st.pointer, v), !.ip = @ + 1]
                      IN CASE line = JavaStatement("SHIFT_LEFT") ->
                                  JavaExec(code, [st EXCEPT !.pointer = @ - 1, !.ip = @ + 1], fuel - 1)
                           [] line = JavaStatement("SHIFT_RIGHT") ->
                                  JavaExec(code, [st EXCEPT !.pointer = @ + 1, !.ip = @ + 1], fuel - 1)
                           [] line = JavaEnd ->
                                  JavaExec(code, [st EXCEPT !.ip = JavaOpen(code, st.ip - 1, 0)], fuel - 1)
                           [] OTHER ->
                                  IF ~InTape(st.pointer)
                                      THEN Thrown
                                      ELSE CASE line = JavaStatement("INCREMENT") ->
                                                    JavaExec(code, Set((cell + 1) % CharValues), fuel - 1)
                                             [] line = JavaStatement("DECREMENT") ->
                                                    JavaExec(code, Set((cell + CharValues - 1) % CharValues), fuel - 1)
                                             [] line = JavaStatement("ZERO") ->
                                                    JavaExec(code, Set(0), fuel - 1)
                                             [] line = JavaStatement("INPUT") ->
                                                    IF st.in = << >>
                                                        THEN JavaExec(code, Set(CharValues - 1), fuel - 1)
                                                        ELSE JavaExec(code, [Set(Head(st.in)) EXCEPT !.in = Tail(@)],
                                                                      fuel - 1)
                                             [] line = JavaStatement("OUTPUT") ->
                                                    JavaExec(code, [st EXCEPT !.out = Append(@, cell), !.ip = @ + 1],
                                                             fuel - 1)
                                             [] line = "while (array[pointer] == 1){ \n" ->
                                                    IF cell = 1
                                                        THEN JavaExec(code, [st EXCEPT !.ip = @ + 1], fuel - 1)
                                                        ELSE JavaExec(code,
                                                                 [st EXCEPT !.ip = JavaClose(code, st.ip + 1, 0) + 1],
                                                                 fuel - 1)

\* the end of the run of the program emitted for the tree, on a standard
\* input that holds the bytes in and no more
JavaRun(children, in) ==
    JavaExec(JavaCompilerVisitProgram(children),
             [ip |-> Len(JavaHeader) + 1, array |-> EmptyTape, pointer |-> 0,
              out |-> << >>, in |-> in, end |-> "running"],
             MaxJavaSteps)

\* the Interpreter has run the tree of a well-bracketed source and returned,
\* every read of standard input having found a byte and every access
\* of the run having been to a cell of the tape
CleanRun ==
    /\ pc = "exit"
    /\ Len(last) = 1
    /\ last[1].end = "returned"
    /\ Brackets(argv[1], 0) = "matched"
    /\ ~Failed(1)
    /\ oob \subseteq {ResetLast}

\* C13: the program JavaCompiler emits for a tree has the Interpreter's
\* tape and pointer semantics: run on the same input it ends, like the
\* Interpreter's visit of the tree, with the same output, the same tape and
\* the same pointer, its loops repeating while the cell at the pointer is
\* non-zero.
C13_GeneratorPreservesSemantics ==
    CleanRun =>
        LET java == JavaRun(program, last[1].in)
        IN /\ java.end = "returned"
           /\ java.out = cout
           /\ java.array = memory
           /\ java.pointer = pointer

----------------------------------------------------------------------------
(* Properties of parse and the Printer, checked under SpecParse *)

\* the source s holds command characters and brackets only
CommandsOnly(s) == \A k \in 1..Len(s) : s[k] \in CommandChars \cup {"[", "]"}

\* the source s holds a clear-cell idiom: a "[", a run of "+" only or of
\* "-" only, and a "]"
HasClearIdiom(s) ==
    \E a, b \in 1..Len(s) :
        /\ a + 1 < b
        /\ s[a] = "["
        /\ s[b] = "]"
        /\ \E c \in {"+", "-"} : \A k \in (a + 1)..(b - 1) : s[k] = c

\* parse has returned to main, or has faulted
ParseOver == pc \in {"accept", "crashed"}

\* C14: for a well-bracketed source of command characters and brackets
\* that holds no clear-cell idiom, parse builds a tree, and the characters
\* the Printer writes for the nodes of the tree are the characters of the
\* source, in their order.
C14_PrintRoundTrip ==
    (/\ ParseOver
     /\ CommandsOnly(argv[1])
     /\ Brackets(argv[1], 0) = "matched"
     /\ ~HasClearIdiom(argv[1]))
        => /\ pc = "accept"
           /\ PrinterVisitAll(program) = argv[1]

\* the source s without its comment characters
Strip(s) == SelectSeq(s, LAMBDA c : c \in CommandChars \cup {"[", "]"})

RECURSIVE Defined(_)
\* the trees hold no Loop whose only child is a Loop
Defined(children) ==
    \A k \in 1..Len(children) :
        IsLoop(children[k])
            => /\ ~(Len(children[k].children) = 1 /\ IsLoop(children[k].children[1]))
               /\ Defined(children[k].children)

\* C15: the tree parse builds from a source is the tree it builds from the
\* same source with every character that is no command character and no
\* bracket removed.
C15_CommentsNoEffect ==
    (pc = "accept" /\ Defined(ParseTree(Strip(argv[1]))))
        => program = ParseTree(Strip(argv[1]))

----------------------------------------------------------------------------
(* The run of "+[]", checked under SpecRun *)

\* main was given the one source file "+[]"
PlusLoop == argv = <<<<"+", "[", "]">>>>

\* the Increment of "+[]" has been executed
Incremented1 == pc = "run" /\ (frames[1].it > 1 \/ i > 0)

\* C16: the run of the tree parsed from "+[]" never completes: once the
\* Increment is done the cell at pointer 0 is 1 in every later state, the
\* pointer stays 0, every test of the Loop finds the cell non-zero and so
\* starts another pass, no step leaves the test, and the visit of the
\* Program never returns.
C16_PlusLoopNeverTerminates ==
    /\ [](PlusLoop => ~Returned /\ pc # "crashed")
    /\ []((PlusLoop /\ pc = "accept") => program = <<CommandNode("+", 1), Loop(<< >>)>>)
    /\ []((PlusLoop /\ Incremented1) => memory = Write(EmptyTape, 0, 1) /\ pointer = 0)
    /\ []((PlusLoop /\ AtLoopTest)
            => /\ TestsTrue(Load(memory, pointer))
               /\ ~TestsFalse(Load(memory, pointer))
               /\ ENABLED LoopPass)
    /\ [][(PlusLoop /\ AtLoopTest) => AtLoopTest']_vars

\* the visit of the Loop of "+[]" stands at its test, the cell being 1
C16_Witness ==
    /\ PlusLoop
    /\ AtLoopTest
    /\ Read(memory, 0) = 1
    /\ Top.children = << >>

----------------------------------------------------------------------------
(* Properties of the driver, checked under Spec (continued) *)

\* C17: every read and every write of a cell, by the reset loop at the
\* start of a visit of the Program, by a command or by a Loop test, uses an
\* index of the tape, 0..29999: no index outside the array is ever accessed.
C17_TapeAccessesInBounds == \A k \in oob : InTape(k)

----------------------------------------------------------------------------
(* Bracket matching, checked under SpecParse *)

RECURSIVE CloseOf(_, _, _)
\* the index of the "]" that closes the loop whose body begins at s[k]
CloseOf(s, k, d) ==
    CASE s[k] = "[" -> CloseOf(s, k + 1, d + 1)
      [] s[k] = "]" -> IF d = 0 THEN k ELSE CloseOf(s, k + 1, d - 1)
      [] OTHER -> CloseOf(s, k + 1, d)

RECURSIVE OpenOf(_, _, _)
\* the index of the "[" that opens the loop whose body ends at s[k]
OpenOf(s, k, d) ==
    CASE s[k] = "]" -> OpenOf(s, k - 1, d + 1)
      [] s[k] = "[" -> IF d = 0 THEN k ELSE OpenOf(s, k - 1, d - 1)
      [] OTHER -> OpenOf(s, k - 1, d)

RECURSIVE MatchedTree(_)
\* the nodes of the characters of the well-bracketed stream s, in encounter
\* order: a run gives a Command node, and a "[" gives the node of a Loop
\* whose children are the nodes of the characters up to the "]" that
\* matches it, the characters after that "]" giving the later siblings
MatchedTree(s) ==
    IF ~CanExtract(s)
        THEN << >>
        ELSE LET c == Extracted(s)
                 rest == AfterExtract(s)
                 count == 1 + Repeats(rest, c)
                 close == CloseOf(rest, 1, 0)
             IN CASE c \in CommandChars ->
                         <<CommandNode(c, count)>> \o MatchedTree(Drop(rest, count - 1))
                  [] c = "[" ->
                         <<Folded(MatchedTree(SubSeq(rest, 1, close - 1)))>>
                             \o MatchedTree(SubSeq(rest, close + 1, Len(rest)))
                  [] OTHER ->
                         MatchedTree(rest)

\* the index in the source of the "]" that parse extracts next
ClosingIndex == Len(argv[1]) - Len(AfterExtract(file))

\* the characters between that "]" and the "[" it matches
Between ==
    SubSeq(argv[1], OpenOf(argv[1], ClosingIndex - 1, 0) + 1, ClosingIndex - 1)

\* C18: on a well-bracketed source, the recursive call of parse made at a
\* "[" returns at the "]" that matches it, having consumed the characters
\* up to and including that "]" and no more, with the Loop's children the
\* nodes of the characters between the two brackets; parse then goes on in
\* the enclosing container, so that the tree it builds is the tree of the
\* matched brackets, at every nesting depth.
C18_BracketMatching ==
    /\ [][(LoopParsed /\ Brackets(argv[1], 0) = "matched")
            => /\ file' = AfterExtract(file)
               /\ ParsedBody = MatchedTree(Between)
               /\ pc' = "parse"
               /\ Target(loops', program') = Append(OuterTarget, Folded(ParsedBody))]_vars
    /\ []((ParseOver /\ Brackets(argv[1], 0) = "matched")
            => /\ pc = "accept"
               /\ program = MatchedTree(argv[1]))

----------------------------------------------------------------------------
(* Properties of the driver, checked under Spec (continued) *)

\* C19: the Program that main hands to the Interpreter after parsing a
\* source file holds the nodes parsed from that file and no node parsed
\* from an earlier file.
C19_OneTreePerParse ==
    (pc = "accept" /\ Defined(ParseTree(argv[argi])))
        => program = ParseTree(argv[argi])

====
